---- MODULE Spec2Model ----
(***************************************************************************)
(* A model of Geoprocessing.py: the St. Louis tax-sale pipeline.           *)
(*   check_pdf -> download_pdf -> extract_property_data ->                 *)
(*   fuzzy_match_addresses -> removal of the intermediate files.           *)
(*                                                                         *)
(* Text is modelled at the level of whitespace-separated tokens.  An       *)
(* address is a sequence of one-character tokens, so that the characters   *)
(* of " ".join(tokens) are the tokens with a " " between neighbours.       *)
(* A Python exception that leaves a function is the outcome "raised".      *)
(***************************************************************************)
EXTENDS Integers, Sequences, FiniteSets, TLC

VARIABLES
    pc,     \* the statement the interpreter is at
    fs,     \* the files on disk: name -> content, or Absent
    web,    \* what the server at pdf_url holds (read only)
    shp,    \* the parcel shapefile at shapefile_path (read only)
    cp,     \* frame of check_pdf
    dl,     \* frame of download_pdf
    ex,     \* frame of extract_property_data
    gb,     \* frame of a direct call of get_best_match
    fm,     \* frame of fuzzy_match_addresses
    log     \* the statements of the main run sequence executed so far

vars == <<pc, fs, web, shp, cp, dl, ex, gb, fm, log>>

----------------------------------------------------------------------------
(* Bounds of the model.                                                    *)

MaxRecords == 2      \* rows of the record table handed to the resolver
MaxRef == 2          \* rows of the reference dataset
MaxRetries == 3      \* largest `retries` passed to check_pdf
MaxPages == 2        \* pages of the source document

(* Program constants.                                                      *)

DefaultRetries == 3
DefaultDelay == 3
DefaultThreshold == 25
PerfectScore == 100

----------------------------------------------------------------------------
(* Values.                                                                 *)

None == <<"None">>           \* Python's None / a null cell of a table
Absent == [kind |-> "absent"]
NoFrame == [active |-> FALSE, ret |-> "none"]

----------------------------------------------------------------------------
(* Scores.  A rapidfuzz score is a float in [0, 100]; it is kept exactly,  *)
(* as the reduced fraction n/d.                                            *)

RECURSIVE Gcd(_, _)
Gcd(a, b) == IF b = 0 THEN a ELSE Gcd(b, a % b)

Frac(n, d) == LET g == Gcd(n, d) IN [n |-> n \div g, d |-> d \div g]

ScoreGE(s, t) == s.n >= t * s.d        \* s >= t, t an integer
ScoreLT(s, t) == s.n < t * s.d         \* s <  t, t an integer
ScoreGT(s1, s2) == s1.n * s2.d > s2.n * s1.d

----------------------------------------------------------------------------
(* fuzz.token_sort_ratio: sort the tokens of each string, join them with   *)
(* " ", and take the normalised Indel similarity of the two strings:       *)
(* 100 * 2*LCS / (len1 + len2), and 100 for two empty strings.             *)

Rank(t) ==
    CASE t = " " -> 0
      [] t = "1" -> 1
      [] t = "2" -> 2
      [] t = "a" -> 3
      [] t = "b" -> 4

RECURSIVE Insert(_, _)
Insert(t, s) ==
    IF s = <<>> THEN <<t>>
    ELSE IF Rank(t) <= Rank(Head(s)) THEN <<t>> \o s
    ELSE <<Head(s)>> \o Insert(t, Tail(s))

RECURSIVE SortTokens(_)
SortTokens(s) == IF s = <<>> THEN <<>> ELSE Insert(Head(s), SortTokens(Tail(s)))

RECURSIVE Join(_)
Join(s) ==
    IF Len(s) <= 1 THEN s ELSE <<Head(s), " ">> \o Join(Tail(s))

RECURSIVE LcsLen(_, _)
LcsLen(a, b) ==
    IF a = <<>> \/ b = <<>> THEN 0
    ELSE IF Head(a) = Head(b) THEN 1 + LcsLen(Tail(a), Tail(b))
    ELSE LET x == LcsLen(Tail(a), b)
             y == LcsLen(a, Tail(b))
         IN IF x >= y THEN x ELSE y

ratio(s1, s2) ==
    LET total == Len(s1) + Len(s2)
    IN IF total = 0 THEN Frac(100, 1)
       ELSE Frac(200 * LcsLen(s1, s2), total)

token_sort_ratio(s1, s2) == ratio(Join(SortTokens(s1)), Join(SortTokens(s2)))

----------------------------------------------------------------------------
(* process.extractOne(query, choices, scorer=token_sort_ratio): the first  *)
(* choice, in the order of the column, with the highest score; null        *)
(* choices are passed over; None when no choice is left.                   *)

NoResult == [found |-> FALSE]

RECURSIVE extractFrom(_, _, _, _)
extractFrom(query, choices, k, best) ==
    IF k > Len(choices) THEN best
    ELSE IF choices[k] = None THEN extractFrom(query, choices, k + 1, best)
    ELSE LET score == token_sort_ratio(query, choices[k])
         IN IF ~best.found \/ ScoreGT(score, best.score)
            THEN extractFrom(query, choices, k + 1,
                             [found |-> TRUE, match |-> choices[k],
                              score |-> score, key |-> k])
            ELSE extractFrom(query, choices, k + 1, best)

extractOne(query, choices) == extractFrom(query, choices, 1, NoResult)

(* get_best_match(address, choices, threshold).  Unpacking the None that   *)
(* extractOne returns for an empty column raises TypeError.                *)

AcceptMutant(score, threshold) == ScoreGT(score, Frac(threshold, 1))

Accept(score, threshold) == ScoreGE(score, threshold)

get_best_match(address, choices, threshold) ==
    LET one == extractOne(address, choices)
    IN IF ~one.found
       THEN [exc |-> "TypeError"]
       ELSE IF Accept(one.score, threshold)
            THEN [exc |-> "none", match |-> one.match, score |-> one.score]
            ELSE [exc |-> "none", match |-> None, score |-> one.score]

----------------------------------------------------------------------------
(* Inputs.                                                                 *)

RECURSIVE SeqsUpTo(_, _)
SeqsUpTo(S, n) ==
    IF n = 0 THEN {<<>>}
    ELSE LET shorter == SeqsUpTo(S, n - 1)
         IN shorter \cup {Append(s, x) : s \in {t \in shorter : Len(t) = n - 1}, x \in S}

CsvAddrs == {<<"1", "a">>, <<"1", "b">>}
RefAddrs == {<<"1", "a">>, <<"a", "1">>, <<"1">>, <<"2">>, None}
Thresholds == {DefaultThreshold, 50, 51, PerfectScore, 101}

(* File names of the configuration block, and the tables in the files.     *)

pdf_filename == "Sale-List-231.pdf"
csv_filename == "property_tax_sale_231.csv"
standardized_csv_filename == "standardized_property_tax_sale_231.csv"
matched_output_filename == "matched_addresses_231.csv"
imperfect_filename == "imperfect_matches.csv"

FileNames == {pdf_filename, csv_filename, standardized_csv_filename,
              matched_output_filename, imperfect_filename}

NoFiles == [n \in FileNames |-> Absent]

TaxIds == <<"001-001", "002-002", "003-003", "004-004">>

MkRow(i, a) == [tax |-> TaxIds[i], owner |-> <<"a">>, addr |-> a, owed |-> "1.00"]

RecordTables ==
    {[kind |-> "csv", addrcol |-> c, rows |-> [i \in 1..Len(as) |-> MkRow(i, as[i])]] :
        c \in {"Address", "Street"}, as \in SeqsUpTo(CsvAddrs, MaxRecords)}

Shapefiles ==
    [kind : {"shp"}, addrcol : {"SITEADDR", "ADDRESS"}, rows : SeqsUpTo(RefAddrs, MaxRef)]

----------------------------------------------------------------------------
(* A direct call of get_best_match.                                        *)

InitMatch ==
    /\ pc = "gb_call"
    /\ gb \in [address : CsvAddrs, choices : SeqsUpTo(RefAddrs, MaxRef),
                threshold : Thresholds, ret : {None}]
    /\ fs = NoFiles /\ web = Absent /\ shp = Absent
    /\ cp = NoFrame /\ dl = NoFrame /\ ex = NoFrame /\ fm = NoFrame
    /\ log = <<>>

GetBestMatch ==
    /\ pc = "gb_call"
    /\ LET r == get_best_match(gb.address, gb.choices, gb.threshold)
       IN /\ gb' = [gb EXCEPT !.ret = r]
          /\ pc' = IF r.exc = "none" THEN "gb_returned" ELSE "gb_raised"
    /\ UNCHANGED <<fs, web, shp, cp, dl, ex, fm, log>>

NextMatch == GetBestMatch

SpecMatch == InitMatch /\ [][NextMatch]_vars

----------------------------------------------------------------------------
(* fuzzy_match_addresses(csv_path, shapefile_path, output_path).           *)

(* pd.merge(csv_df, matches_df, on='Standard Address', how='left'): every  *)
(* left row, in order, once per right row with the same key.               *)
RECURSIVE MergeMatches(_, _)
MergeMatches(left, right) ==
    IF left = <<>> THEN <<>>
    ELSE LET l == Head(left)
             hits == SelectSeq(right, LAMBDA r : r.std = l.addr)
         IN [k \in 1..Len(hits) |->
                [rec |-> l, matched |-> hits[k].matched, score |-> hits[k].score]]
            \o MergeMatches(Tail(left), right)

(* result_df.merge(shapefile_gdf, left_on='Matched Address',               *)
(* right_on='Standard Address'): `how` is left at its default, "inner";    *)
(* a left row is kept once per reference row with an equal key, and pandas *)
(* takes two null keys to be equal.                                        *)
RefHits(refs, key) == SelectSeq([k \in 1..Len(refs) |-> k], LAMBDA k : refs[k] = key)

RECURSIVE MergeShapeInner(_, _)
MergeShapeInner(left, refs) ==
    IF left = <<>> THEN <<>>
    ELSE LET l == Head(left)
             hits == RefHits(refs, l.matched)
         IN [k \in 1..Len(hits) |->
                [rec |-> l.rec, matched |-> l.matched, score |-> l.score,
                 parcel |-> hits[k]]]
            \o MergeShapeInner(Tail(left), refs)

MergeShape(left, refs) == MergeShapeInner(left, refs)

ImperfectMutant(row) == ~ScoreGT(row.score, Frac(PerfectScore, 1))

Imperfect(row) == ScoreLT(row.score, PerfectScore)

(* pd.read_csv infers the type of a column: a Total Owed without a         *)
(* thousands separator is read as a float ("1.00" is 1.0), the identifiers *)
(* and the addresses stay strings.                                         *)
ParseOwed(owed) ==
    CASE owed = "1.00" -> "1.0"
      [] owed = "2.00" -> "2.0"
      [] OTHER -> owed

read_csv(rows) == [i \in 1..Len(rows) |-> [rows[i] EXCEPT !.owed = ParseOwed(@)]]

FmFrame(csv_path, output_path) ==
    [active |-> TRUE, csv_path |-> csv_path, output_path |-> output_path,
     csv_df |-> <<>>, refs |-> <<>>, i |-> 1, matches |-> <<>>, exc |-> "none"]

FmLoad ==
    /\ pc = "fm_load"
    /\ LET file == fs[fm.csv_path]
       IN IF file = Absent
          THEN /\ fm' = [fm EXCEPT !.exc = "FileNotFoundError"]
               /\ pc' = "fm_raised"
          ELSE IF file.addrcol # "Address" \/ shp.addrcol # "SITEADDR"
          THEN /\ fm' = [fm EXCEPT !.exc = "KeyError"]
               /\ pc' = "fm_raised"
          ELSE /\ fm' = [fm EXCEPT !.csv_df = read_csv(file.rows), !.refs = shp.rows]
               /\ pc' = "fm_loop"
    /\ UNCHANGED <<fs, web, shp, cp, dl, ex, gb, log>>

FmMatchOne ==
    /\ pc = "fm_loop"
    /\ fm.i <= Len(fm.csv_df)
    /\ LET addr == fm.csv_df[fm.i].addr
           r == get_best_match(addr, fm.refs, DefaultThreshold)
       IN IF r.exc # "none"
          THEN /\ fm' = [fm EXCEPT !.exc = r.exc]
               /\ pc' = "fm_raised"
          ELSE /\ fm' = [fm EXCEPT
                            !.matches = Append(@, [std |-> addr, matched |-> r.match,
                                                   score |-> r.score]),
                            !.i = @ + 1]
               /\ pc' = "fm_loop"
    /\ UNCHANGED <<fs, web, shp, cp, dl, ex, gb, log>>

FmMerge ==
    /\ pc = "fm_loop"
    /\ fm.i > Len(fm.csv_df)
    /\ LET result_df == MergeShape(MergeMatches(fm.csv_df, fm.matches), fm.refs)
       IN fs' = [fs EXCEPT ![fm.output_path] = [kind |-> "linked", rows |-> result_df]]
    /\ pc' = "fm_filter"
    /\ UNCHANGED <<web, shp, cp, dl, ex, gb, fm, log>>

FmFilter ==
    /\ pc = "fm_filter"
    /\ LET result_df == fs[fm.output_path].rows
       IN fs' = [fs EXCEPT ![imperfect_filename] =
                    [kind |-> "linked", rows |-> SelectSeq(result_df, Imperfect)]]
    /\ pc' = "fm_returned"
    /\ UNCHANGED <<web, shp, cp, dl, ex, gb, fm, log>>

InitResolve ==
    /\ pc = "fm_load"
    /\ \E t \in RecordTables : fs = [NoFiles EXCEPT ![standardized_csv_filename] = t]
    /\ shp \in Shapefiles
    /\ fm = FmFrame(standardized_csv_filename, matched_output_filename)
    /\ web = Absent
    /\ cp = NoFrame /\ dl = NoFrame /\ ex = NoFrame /\ gb = NoFrame
    /\ log = <<>>

NextResolve == FmLoad \/ FmMatchOne \/ FmMerge \/ FmFilter

SpecResolve == InitResolve /\ [][NextResolve]_vars

----------------------------------------------------------------------------
(* check_pdf(url, retries, delay).  The server answers each HEAD request   *)
(* with a PDF ("pdf"), with anything else ("other"), or the request raises *)
(* requests.RequestException ("exc").                                      *)

Responses == {"pdf", "other", "exc"}
Delays == {0, DefaultDelay}

CpFrame(retries, delay) ==
    [active |-> TRUE, retries |-> retries, delay |-> delay, attempt |-> 1,
     events |-> <<>>, ret |-> "none"]

SleepsAfterMutant(attempt, retries) == attempt <= retries

SleepsAfter(attempt, retries) == attempt < retries

CpRequest ==
    /\ pc = "cp_loop"
    /\ cp.attempt <= cp.retries
    /\ \E resp \in Responses :
         LET seen == [cp EXCEPT !.events = Append(@, [op |-> "head", resp |-> resp])]
         IN IF resp = "pdf"
            THEN /\ cp' = [seen EXCEPT !.ret = "True"]
                 /\ pc' = "cp_returned"
            ELSE IF SleepsAfter(cp.attempt, cp.retries)
            THEN /\ cp' = seen
                 /\ pc' = "cp_sleep"
            ELSE /\ cp' = [seen EXCEPT !.attempt = @ + 1]
                 /\ pc' = "cp_loop"
    /\ UNCHANGED <<fs, web, shp, dl, ex, gb, fm, log>>

CpSleep ==
    /\ pc = "cp_sleep"
    /\ cp' = [cp EXCEPT !.events = Append(@, [op |-> "sleep", secs |-> cp.delay]),
                        !.attempt = @ + 1]
    /\ pc' = "cp_loop"
    /\ UNCHANGED <<fs, web, shp, dl, ex, gb, fm, log>>

CpExhausted ==
    /\ pc = "cp_loop"
    /\ cp.attempt > cp.retries
    /\ cp' = [cp EXCEPT !.ret = "False"]
    /\ pc' = "cp_returned"
    /\ UNCHANGED <<fs, web, shp, dl, ex, gb, fm, log>>

InitCheckPdf ==
    /\ pc = "cp_loop"
    /\ \E r \in 0..MaxRetries, d \in Delays : cp = CpFrame(r, d)
    /\ fs = NoFiles /\ web = Absent /\ shp = Absent
    /\ dl = NoFrame /\ ex = NoFrame /\ gb = NoFrame /\ fm = NoFrame
    /\ log = <<>>

NextCheckPdf == CpRequest \/ CpSleep \/ CpExhausted

SpecCheckPdf == InitCheckPdf /\ [][NextCheckPdf]_vars

(* The interpreter runs the next statement; a request ends (timeout=25)    *)
(* and a sleep ends.                                                       *)
FairSpecCheckPdf == SpecCheckPdf /\ WF_vars(NextCheckPdf)

----------------------------------------------------------------------------
(* extract_property_data(pdf_path, output_csv).                            *)

(* The lexical classes of the tokens of the document text. *)
IsId(t) == t \in {TaxIds[i] : i \in 1..Len(TaxIds)}     \* \d{3}-\d{3}(?:-\d{3})?
IsNum(t) == t \in {"1", "2"}                           \* \d{1,5}
IsWord(t) == t \in {"a", "b"}
IsAmt(t) == t \in {"$1.00", "$2.00"}                   \* \$\d{1,3}(?:,\d{3})*\.\d{2}
Amount(t) == IF t = "$1.00" THEN "1.00" ELSE "2.00"    \* the group after the "$"
InAddrClass(t) == IsNum(t) \/ IsWord(t) \/ IsId(t)     \* [\w\s\.\'\-]+

(* The address group, \d{1,5}\s[\w\s\.\'\-]+?, starting at token j: it is   *)
(* lazy and "$" is not in its class, so it ends before the first amount    *)
(* after j, and needs one token after the number.  0 when it cannot match. *)
AddrEnd(text, j) ==
    LET amts == {k \in (j + 1)..Len(text) : IsAmt(text[k])}
    IN IF ~IsNum(text[j]) \/ amts = {} THEN 0
       ELSE LET k == CHOOSE x \in amts : \A y \in amts : x <= y
            IN IF k >= j + 2 /\ \A x \in (j + 1)..(k - 1) : InAddrClass(text[x])
               THEN k ELSE 0

(* One match of the pattern with the identifier at token i: the owner      *)
(* group, .+?, is lazy, so the address starts at the first token after a   *)
(* non-empty owner from which the rest of the pattern matches.             *)
MatchAt(text, i) ==
    LET starts == {j \in (i + 2)..Len(text) : AddrEnd(text, j) # 0}
    IN IF ~IsId(text[i]) \/ starts = {} THEN [found |-> FALSE]
       ELSE LET j == CHOOSE x \in starts : \A y \in starts : x <= y
                k == AddrEnd(text, j)
            IN [found |-> TRUE, end |-> k,
                rec |-> [tax |-> text[i], owner |-> SubSeq(text, i + 1, j - 1),
                         addr |-> SubSeq(text, j, k - 1), owed |-> Amount(text[k])]]

(* re.findall(pattern, full_text): the matches from left to right, each    *)
(* search starting where the last match ended.                             *)
RECURSIVE FindFrom(_, _)
FindFrom(text, i) ==
    IF i > Len(text) THEN <<>>
    ELSE LET m == MatchAt(text, i)
         IN IF m.found THEN <<m.rec>> \o FindFrom(text, m.end + 1)
            ELSE FindFrom(text, i + 1)

findall(text) == FindFrom(text, 1)

ExFrame(pdf_path, output_csv) ==
    [active |-> TRUE, pdf_path |-> pdf_path, output_csv |-> output_csv,
     handle |-> "none", page_num |-> 1, full_text |-> <<>>, searched |-> FALSE,
     matches |-> <<>>, ret |-> "none", exc |-> "none"]

ExOpen ==
    /\ pc = "ex_open"
    /\ LET file == fs[ex.pdf_path]
       IN IF file = Absent \/ ~file.openable
          THEN /\ ex' = [ex EXCEPT !.ret = "False"]
               /\ pc' = "ex_returned"
          ELSE /\ ex' = [ex EXCEPT !.handle = "open"]
               /\ pc' = "ex_pages"
    /\ UNCHANGED <<fs, web, shp, cp, dl, gb, fm, log>>

AfterUnreadableMutant(page_num, n_pages) == n_pages + 1

(* `continue`: the loop goes on with the next page. *)
AfterUnreadable(page_num, n_pages) == page_num + 1

ExReadPage ==
    /\ pc = "ex_pages"
    /\ LET pages == fs[ex.pdf_path].pages
       IN /\ ex.page_num <= Len(pages)
          /\ LET page == pages[ex.page_num]
             IN CASE page.status = "ok" ->
                       /\ ex' = [ex EXCEPT !.full_text = @ \o page.text,
                                           !.page_num = @ + 1]
                       /\ pc' = "ex_pages"
                  [] page.status = "textfail" ->
                       /\ ex' = [ex EXCEPT
                                   !.page_num = AfterUnreadable(@, Len(pages))]
                       /\ pc' = "ex_pages"
                  [] page.status = "loadfail" ->
                       /\ ex' = [ex EXCEPT !.handle = "closed",
                                           !.exc = "RuntimeError"]
                       /\ pc' = "ex_raised"
    /\ UNCHANGED <<fs, web, shp, cp, dl, gb, fm, log>>

ExClose ==
    /\ pc = "ex_pages"
    /\ ex.page_num > Len(fs[ex.pdf_path].pages)
    /\ ex' = [ex EXCEPT !.handle = "closed"]
    /\ pc' = "ex_findall"
    /\ UNCHANGED <<fs, web, shp, cp, dl, gb, fm, log>>

NoMatchesMutant(matches) == FALSE

NoMatches(matches) == matches = <<>>

ExFindall ==
    /\ pc = "ex_findall"
    /\ LET matches == findall(ex.full_text)
       IN IF NoMatches(matches)
          THEN /\ ex' = [ex EXCEPT !.searched = TRUE, !.matches = matches,
                                   !.ret = "False"]
               /\ pc' = "ex_returned"
          ELSE /\ ex' = [ex EXCEPT !.searched = TRUE, !.matches = matches]
               /\ pc' = "ex_save"
    /\ UNCHANGED <<fs, web, shp, cp, dl, gb, fm, log>>

(* df.to_csv either writes the table, or raises before or after it has     *)
(* created the file.                                                       *)
ExSave ==
    /\ pc = "ex_save"
    /\ \E outcome \in {"written", "failed", "failed_partial"} :
         /\ fs' = CASE outcome = "written" ->
                        [fs EXCEPT ![ex.output_csv] =
                            [kind |-> "csv", addrcol |-> "Address", rows |-> ex.matches]]
                    [] outcome = "failed" -> fs
                    [] outcome = "failed_partial" ->
                        [fs EXCEPT ![ex.output_csv] = [kind |-> "partial"]]
         /\ ex' = [ex EXCEPT !.ret = IF outcome = "written" THEN "True" ELSE "False"]
    /\ pc' = "ex_returned"
    /\ UNCHANGED <<web, shp, cp, dl, gb, fm, log>>

PageTexts ==
    {<<"001-001", "a", "1", "a", "$1.00">>,     \* a whole record
     <<"002-002", "b">>,                        \* a record's identifier and owner
     <<"1", "b", "$2.00">>,                     \* a record's address and amount
     <<"a">>}                                   \* text outside any record

Pages == [status : {"ok", "textfail", "loadfail"}, text : PageTexts]

Unopenable == [kind |-> "pdf", openable |-> FALSE, pages |-> <<>>]

Documents ==
    {Unopenable} \cup
    [kind : {"pdf"}, openable : {TRUE}, pages : SeqsUpTo(Pages, MaxPages)]

InitExtract ==
    /\ pc = "ex_open"
    /\ \E d \in Documents \cup {Absent} : fs = [NoFiles EXCEPT ![pdf_filename] = d]
    /\ ex = ExFrame(pdf_filename, csv_filename)
    /\ web = Absent /\ shp = Absent
    /\ cp = NoFrame /\ dl = NoFrame /\ gb = NoFrame /\ fm = NoFrame
    /\ log = <<>>

NextExtract == ExOpen \/ ExReadPage \/ ExClose \/ ExFindall \/ ExSave

SpecExtract == InitExtract /\ [][NextExtract]_vars

----------------------------------------------------------------------------
(* download_pdf(url, save_path).                                           *)

DlFrame(save_path) == [active |-> TRUE, save_path |-> save_path, ret |-> "none"]

DlGet ==
    /\ pc = "dl_get"
    /\ \E resp \in {"200", "other", "exc"} :
         IF resp = "200"
         THEN /\ fs' = [fs EXCEPT ![dl.save_path] = web]
              /\ dl' = [dl EXCEPT !.ret = "True"]
         ELSE /\ fs' = fs
              /\ dl' = [dl EXCEPT !.ret = "False"]
    /\ pc' = "dl_returned"
    /\ UNCHANGED <<web, shp, cp, ex, gb, fm, log>>

----------------------------------------------------------------------------
(* The main run sequence.                                                  *)

Call(name) == [op |-> "call", name |-> name]

ProceedMutant(ret) == TRUE

(* `if stage(...):` *)
Proceed(ret) == ret = "True"

MainStart ==
    /\ pc = "main_start"
    /\ cp' = CpFrame(DefaultRetries, DefaultDelay)
    /\ log' = Append(log, Call("check_pdf"))
    /\ pc' = "cp_loop"
    /\ UNCHANGED <<fs, web, shp, dl, ex, gb, fm>>

MainAfterCheck ==
    /\ pc = "cp_returned"
    /\ IF Proceed(cp.ret)
       THEN /\ dl' = DlFrame(pdf_filename)
            /\ log' = Append(log, Call("download_pdf"))
            /\ pc' = "dl_get"
       ELSE /\ pc' = "main_done"
            /\ UNCHANGED <<dl, log>>
    /\ UNCHANGED <<fs, web, shp, cp, ex, gb, fm>>

MainAfterDownload ==
    /\ pc = "dl_returned"
    /\ IF Proceed(dl.ret)
       THEN /\ ex' = ExFrame(pdf_filename, csv_filename)
            /\ log' = Append(log, Call("extract_property_data"))
            /\ pc' = "ex_open"
       ELSE /\ pc' = "main_done"
            /\ UNCHANGED <<ex, log>>
    /\ UNCHANGED <<fs, web, shp, cp, dl, gb, fm>>

(* On success the extracted table is read back, given its Standard Address *)
(* column and written to standardized_csv_filename; the resolver is called *)
(* on that file.                                                           *)
MainAfterExtract ==
    /\ pc = "ex_returned"
    /\ IF Proceed(ex.ret)
       THEN /\ fs' = [fs EXCEPT ![standardized_csv_filename] =
                        [fs[csv_filename] EXCEPT !.rows = read_csv(@)]]
            /\ fm' = FmFrame(standardized_csv_filename, matched_output_filename)
            /\ log' = Append(log, Call("fuzzy_match_addresses"))
            /\ pc' = "fm_load"
       ELSE /\ pc' = "main_done"
            /\ UNCHANGED <<fs, fm, log>>
    /\ UNCHANGED <<web, shp, cp, dl, ex, gb>>

Intermediates == <<pdf_filename, csv_filename, standardized_csv_filename>>

Removals == SelectSeq(log, LAMBDA e : e.op = "remove")

MainAfterMatch ==
    /\ pc = "fm_returned"
    /\ pc' = "main_remove"
    /\ UNCHANGED <<fs, web, shp, cp, dl, ex, gb, fm, log>>

(* os.remove(f) deletes the file, or raises and the loop goes on. *)
MainRemove ==
    /\ pc = "main_remove"
    /\ Len(Removals) < Len(Intermediates)
    /\ LET f == Intermediates[Len(Removals) + 1]
       IN \E removed \in BOOLEAN :
            /\ removed => fs[f] # Absent
            /\ fs' = IF removed THEN [fs EXCEPT ![f] = Absent] ELSE fs
            /\ log' = Append(log, [op |-> "remove", name |-> f, removed |-> removed])
    /\ pc' = "main_remove"
    /\ UNCHANGED <<web, shp, cp, dl, ex, gb, fm>>

MainEnd ==
    /\ pc = "main_remove"
    /\ Len(Removals) = Len(Intermediates)
    /\ pc' = "main_done"
    /\ UNCHANGED <<fs, web, shp, cp, dl, ex, gb, fm, log>>

MainPages ==
    {[status |-> "ok", text |-> <<"001-001", "a", "1", "a", "$1.00">>],
     [status |-> "ok", text |-> <<"a">>],
     [status |-> "textfail", text |-> <<"001-001", "a", "1", "a", "$1.00">>],
     [status |-> "loadfail", text |-> <<"a">>]}

MainDocuments ==
    {Unopenable} \cup
    [kind : {"pdf"}, openable : {TRUE}, pages : SeqsUpTo(MainPages, MaxPages)]

MainShapefiles ==
    [kind : {"shp"}, addrcol : {"SITEADDR", "ADDRESS"},
     rows : SeqsUpTo({<<"1", "a">>, <<"2">>}, MaxRef)]

Init ==
    /\ pc = "main_start"
    /\ fs = NoFiles
    /\ web \in MainDocuments
    /\ shp \in MainShapefiles
    /\ cp = NoFrame /\ dl = NoFrame /\ ex = NoFrame /\ gb = NoFrame /\ fm = NoFrame
    /\ log = <<>>

Next ==
    \/ MainStart \/ CpRequest \/ CpSleep \/ CpExhausted \/ MainAfterCheck
    \/ DlGet \/ MainAfterDownload
    \/ ExOpen \/ ExReadPage \/ ExClose \/ ExFindall \/ ExSave \/ MainAfterExtract
    \/ FmLoad \/ FmMatchOne \/ FmMerge \/ FmFilter \/ MainAfterMatch
    \/ MainRemove \/ MainEnd

Spec == Init /\ [][Next]_vars

----------------------------------------------------------------------------
(* Properties of get_best_match.                                           *)

GbScores ==
    {token_sort_ratio(gb.address, gb.choices[k]) :
        k \in {j \in 1..Len(gb.choices) : gb.choices[j] # None}}

(* C2: get_best_match returns the highest score over the reference set     *)
(* unchanged, and returns a candidate with that score exactly when the     *)
(* score is >= threshold; below the threshold it returns None.             *)
C2_ThresholdBoundary ==
    pc = "gb_returned" =>
        /\ gb.ret.score \in GbScores
        /\ \A s \in GbScores : ~ScoreGT(s, gb.ret.score)
        /\ (gb.ret.match # None) <=> (gb.ret.score.n >= gb.threshold * gb.ret.score.d)
        /\ gb.ret.match # None =>
              \E k \in 1..Len(gb.choices) :
                  /\ gb.choices[k] = gb.ret.match
                  /\ token_sort_ratio(gb.address, gb.choices[k]) = gb.ret.score

(* A best score equal to the threshold, accepted. *)
C2_Witness ==
    /\ pc = "gb_returned"
    /\ gb.ret.score.n = gb.threshold * gb.ret.score.d
    /\ gb.ret.match # None

(* A best score of threshold - 1, rejected with the score kept. *)
C2_WitnessBelow ==
    /\ pc = "gb_returned"
    /\ gb.ret.score.n = (gb.threshold - 1) * gb.ret.score.d
    /\ gb.ret.match = None

----------------------------------------------------------------------------
(* Properties of fuzzy_match_addresses.                                    *)

InputRows == read_csv(fs[fm.csv_path].rows)
LinkedRows == fs[fm.output_path].rows
LowRows == fs[imperfect_filename].rows

SchemaOk == fs[fm.csv_path].addrcol = "Address" /\ shp.addrcol = "SITEADDR"

UniqueReference ==
    \A j, k \in 1..Len(shp.rows) : shp.rows[j] = shp.rows[k] => j = k

(* C1: when fuzzy_match_addresses has returned, every row of the input     *)
(* record table appears in the linked table, no-match rows included.       *)
C1_EveryInputRowLinked ==
    pc = "fm_returned" =>
        \A i \in 1..Len(InputRows) :
            \E k \in 1..Len(LinkedRows) : LinkedRows[k].rec = InputRows[i]

(* C3: with a non-empty record table and an empty reference set the        *)
(* resolver does not raise, and every address is recorded as "no match".   *)
C3_EmptyReferenceNoRaise ==
    (SchemaOk /\ Len(InputRows) > 0 /\ shp.rows = <<>>) =>
        /\ pc # "fm_raised"
        /\ pc \in {"fm_filter", "fm_returned"} =>
              /\ Len(fm.matches) = Len(InputRows)
              /\ \A k \in 1..Len(fm.matches) : fm.matches[k].matched = None

(* C4: with unique canonical addresses, the linked table has exactly one   *)
(* row per input record: an address that occurs k times yields k rows.     *)
(* Stated for the tables in which every address found a match, the rows    *)
(* C1 is about being left aside.                                           *)
C4_OneRowPerRecord ==
    (/\ pc = "fm_returned"
     /\ UniqueReference
     /\ \A k \in 1..Len(fm.matches) : fm.matches[k].matched # None) =>
        \A i \in 1..Len(InputRows) :
            Cardinality({k \in 1..Len(LinkedRows) : LinkedRows[k].rec = InputRows[i]}) = 1

(* C5: the low-confidence table is the linked table restricted to the rows *)
(* with Score < 100, in the order of the linked table.                     *)
C5_LowConfidenceSubset ==
    pc = "fm_returned" =>
        LET low == {k \in 1..Len(LinkedRows) :
                        LinkedRows[k].score.n < 100 * LinkedRows[k].score.d}
        IN /\ Len(LowRows) = Cardinality(low)
           /\ \A j \in 1..Len(LowRows) :
                 \E k \in low : /\ LowRows[j] = LinkedRows[k]
                                /\ Cardinality({m \in low : m < k}) = j - 1

(* A linked table with a perfect row and an imperfect row, filtered. *)
C5_Witness ==
    /\ pc = "fm_returned"
    /\ \E k \in 1..Len(LinkedRows) : LinkedRows[k].score = [n |-> 100, d |-> 1]
    /\ LowRows # <<>>
    /\ Len(LowRows) < Len(LinkedRows)

(* C7: a record table without the Address column, or a reference dataset   *)
(* without SITEADDR, ends the resolver in a reported failure, not in an    *)
(* exception, with nothing scored and nothing written.                     *)
C7_SchemaViolationReported ==
    ~SchemaOk =>
        /\ pc # "fm_raised"
        /\ fm.matches = <<>>
        /\ fs[fm.output_path] = Absent
        /\ fs[imperfect_filename] = Absent

----------------------------------------------------------------------------
(* Properties of extract_property_data.                                    *)

SourceFile == fs[ex.pdf_path]
SourceUsable == IF SourceFile = Absent THEN FALSE ELSE SourceFile.openable

RECURSIVE ReadableText(_)
ReadableText(pages) ==
    IF pages = <<>> THEN <<>>
    ELSE (IF Head(pages).status = "ok" THEN Head(pages).text ELSE <<>>)
         \o ReadableText(Tail(pages))

(* C6: with the source file missing or unopenable, or with no record found *)
(* in the assembled text, extract_property_data returns False, does not    *)
(* raise, and has not written the output CSV; the CSV is written only      *)
(* after at least one record was found.                                    *)
C6_NoOutputOnFailure ==
    /\ ~SourceUsable =>
          /\ pc \in {"ex_open", "ex_returned"}
          /\ pc = "ex_returned" => ex.ret = "False"
          /\ fs[ex.output_csv] = Absent
    /\ (ex.searched /\ findall(ex.full_text) = <<>>) =>
          /\ pc = "ex_returned"
          /\ ex.ret = "False"
          /\ fs[ex.output_csv] = Absent
    /\ fs[ex.output_csv] # Absent =>
          /\ ex.searched
          /\ findall(ex.full_text) # <<>>

(* Text was assembled and the pattern found nothing in it. *)
C6_Witness ==
    /\ pc = "ex_returned"
    /\ ex.searched
    /\ ex.full_text # <<>>
    /\ ex.matches = <<>>
    /\ ex.ret = "False"

(* C8: once the page loop is over, the assembled text is the concatenation *)
(* in page order of the text of the pages whose read succeeded, and the    *)
(* document is open only while the pages are read.                         *)
C8_SkipUnreadablePages ==
    /\ (pc \in {"ex_findall", "ex_save"} \/ ex.searched) =>
          ex.full_text = ReadableText(SourceFile.pages)
    /\ ex.handle = "open" => pc = "ex_pages"
    /\ pc \in {"ex_findall", "ex_save", "ex_raised"} => ex.handle = "closed"
    /\ (pc = "ex_returned" /\ SourceUsable) => ex.handle = "closed"

(* A page that could not be read, followed by a page that was. *)
C8_Witness ==
    /\ pc = "ex_findall"
    /\ ex.full_text # <<>>
    /\ \E j, k \in 1..Len(SourceFile.pages) :
          /\ j < k
          /\ SourceFile.pages[j].status = "textfail"
          /\ SourceFile.pages[k].status = "ok"

----------------------------------------------------------------------------
(* Properties of check_pdf.                                                *)

CpHeads == SelectSeq(cp.events, LAMBDA e : e.op = "head")

CpSafe ==
    LET n == Len(cp.events)
    IN /\ Len(CpHeads) <= cp.retries
       /\ \A k \in 1..n :
             (cp.events[k].op = "head" /\ cp.events[k].resp = "pdf") =>
                 k = n /\ pc = "cp_returned" /\ cp.ret = "True"
       /\ pc = "cp_returned" =>
             \/ /\ cp.ret = "True"
                /\ n > 0
                /\ cp.events[n] = [op |-> "head", resp |-> "pdf"]
             \/ /\ cp.ret = "False"
                /\ Len(CpHeads) = cp.retries
                /\ \A k \in 1..Len(CpHeads) : CpHeads[k].resp # "pdf"
       /\ \A k \in 1..n :
             cp.events[k].op = "sleep" =>
                 /\ cp.events[k].secs = cp.delay
                 /\ k > 1
                 /\ cp.events[k - 1].op = "head"
                 /\ IF k < n THEN cp.events[k + 1].op = "head"
                    ELSE pc = "cp_loop" /\ cp.attempt <= cp.retries

(* C9: check_pdf returns, after at most `retries` HEAD requests: True at   *)
(* the first PDF response and with no request after it, False only after   *)
(* `retries` failed requests; every wait is of `delay` and lies between    *)
(* two requests.                                                           *)
C9_BoundedRetries == []CpSafe /\ <>(pc = "cp_returned")

(* True on a later attempt, after a failure and a wait. *)
C9_Witness ==
    /\ pc = "cp_returned"
    /\ cp.ret = "True"
    /\ Len(cp.events) >= 3

----------------------------------------------------------------------------
(* Properties of the main run sequence.                                    *)

StageOrder ==
    <<"check_pdf", "download_pdf", "extract_property_data", "fuzzy_match_addresses">>

Calls == SelectSeq(log, LAMBDA e : e.op = "call")

StageFailed ==
    \/ cp.ret = "False" \/ dl.ret = "False" \/ ex.ret = "False"
    \/ pc \in {"ex_raised", "fm_raised"}

(* C10: the stages are called in the order check_pdf, download_pdf,        *)
(* extract_property_data, fuzzy_match_addresses, each only after every     *)
(* earlier one returned True; a file is removed only after                 *)
(* fuzzy_match_addresses has returned; when a stage fails nothing is       *)
(* removed and the intermediate files written so far are still there.      *)
C10_StageOrder ==
    /\ Len(Calls) <= Len(StageOrder)
    /\ \A k \in 1..Len(Calls) : Calls[k].name = StageOrder[k]
    /\ Len(Calls) >= 2 => cp.ret = "True"
    /\ Len(Calls) >= 3 => dl.ret = "True"
    /\ Len(Calls) >= 4 => ex.ret = "True"
    /\ Removals # <<>> =>
          /\ Len(Calls) = 4
          /\ pc \in {"main_remove", "main_done"}
          /\ \A k \in 1..Len(log) : log[k].op = "remove" => k > 4
    /\ StageFailed => Removals = <<>>
    /\ Removals = <<>> =>
          /\ dl.ret = "True" => fs[pdf_filename] # Absent
          /\ ex.ret = "True" => fs[csv_filename] # Absent
          /\ Len(Calls) = 4 => fs[standardized_csv_filename] # Absent

(* The run ends after a failed extraction, the downloaded PDF still there. *)
C10_Witness ==
    /\ pc = "main_done"
    /\ ex.ret = "False"
    /\ Len(Calls) = 3
    /\ fs[pdf_filename] # Absent

(* A whole run, through to the removal of the three files. *)
C10_WitnessCleanup ==
    /\ pc = "main_done"
    /\ Len(Removals) = 3
    /\ \A f \in {pdf_filename, csv_filename, standardized_csv_filename} : fs[f] = Absent

====
